---- MODULE Spec2Model ----
(***************************************************************************)
(* A model of seahorse's flag declaration / value extraction (flag.rs) and *)
(* of its action wrapper (action.rs).                                      *)
(*                                                                         *)
(* Rust `String`s are modelled as sequences of one-character strings, so   *)
(* that `format!`, `starts_with`, `contains` and `parse` are computed on   *)
(* the characters.  Indices returned by option_index are 0-based, as in    *)
(* the source; TLA+ sequences are 1-based, so v[index + 1] of the source   *)
(* is v[index + 2] here.  A panic ends the execution: once `panic` is set  *)
(* no operation is enabled any more.                                       *)
(***************************************************************************)
EXTENDS Integers, Sequences, FiniteSets

VARIABLES
    flag,         \* the Flag value the caller holds, or NoFlag
    v,            \* the caller's token list (the `v: &[String]` argument)
    idx,          \* what option_index last returned for (flag, v), or Unset
    val,          \* what value last returned for (flag, v), or Unset
    panic,        \* NoPanic, or the panic that ended the execution
    newArgs,      \* the arguments of the last Flag::new call, or Unset
    aliasArgs,    \* the arguments of the alias calls made on `flag` since
    acts,         \* the Action handles that exist, in creation order
    invocations,  \* the calls the wrapped callables received, in order
    runArgs       \* the (handle, context) arguments of the run calls made

vars == <<flag, v, idx, val, panic, newArgs, aliasArgs, acts, invocations, runArgs>>

----------------------------------------------------------------------------
(* Bounds of the model *)

MaxNameLen == 2
MaxAliases == 2
MaxTokens == 3
MaxActions == 2
MaxRuns == 3

----------------------------------------------------------------------------
(* Inputs *)

SeqsUpTo(S, n) == UNION {[1..k -> S] : k \in 0..n}

\* Flag names tried by Flag::new: every string of these characters
NameChars == {"a", "-", "=", " ", "\t"}
Names == SeqsUpTo(NameChars, MaxNameLen)
Usages == {<<>>, <<"u">>}

\* Names and aliases of the flags that are resolved
ResolveNames == {<<"a", "b">>, <<"b">>}
AliasNames == {<<"a">>, <<"b">>}

\* Tokens of the argument lists: the long form of "ab", the short forms of
\* "a" and "b", two integers, and an integer of 20 digits
Tokens ==
    { <<"-", "-", "a", "b">>, <<"-", "a">>, <<"-", "b">>,
      <<"1", "0", "0">>, <<"-", "5">>,
      <<"9","9","9","9","9","9","9","9","9","9","9","9","9","9","9","9","9","9","9","9">> }
TokenLists == SeqsUpTo(Tokens, MaxTokens)

----------------------------------------------------------------------------
(* Option, panics, strings *)

None == [tag |-> "None"]
Some(x) == [tag |-> "Some", val |-> x]
Unset == [tag |-> "Unset"]
NoFlag == [tag |-> "NoFlag"]
NoPanic == [tag |-> "NoPanic"]
Panic(where, msg) == [tag |-> "Panic", in |-> where, msg |-> msg]

Err == [tag |-> "Err"]
Ok(x) == [tag |-> "Ok", val |-> x]

Digits == {"0", "1", "2", "3", "4", "5", "6", "7", "8", "9"}

DigitVal(c) ==
    CASE c = "0" -> 0 [] c = "1" -> 1 [] c = "2" -> 2 [] c = "3" -> 3
      [] c = "4" -> 4 [] c = "5" -> 5 [] c = "6" -> 6 [] c = "7" -> 7
      [] c = "8" -> 8 [] c = "9" -> 9

AllDigits(s) == \A i \in 1..Len(s) : s[i] \in Digits

\* str::starts_with(char)
starts_with(s, c) == Len(s) > 0 /\ s[1] = c

\* str::contains(char)
contains(s, c) == \E i \in 1..Len(s) : s[i] = c

\* format!("--{}", name)
format_long(name) == <<"-", "-">> \o name

\* format!("-{}", a)
format_short(a) == <<"-">> \o a

\* <[String]>::contains(&x)
slice_contains(s, x) == \E i \in 1..Len(s) : s[i] = x

\* Iterator::position, on the sequence of the predicate's outcomes: walks it
\* from the front and returns the 0-based index of the first TRUE.
RECURSIVE position_from(_, _)
position_from(hits, i) ==
    IF i > Len(hits) THEN None
    ELSE IF hits[i] THEN Some(i - 1)
    ELSE position_from(hits, i + 1)

position(hits) == position_from(hits, 1)

RECURSIVE StripLeadingZeros(_)
StripLeadingZeros(s) ==
    IF Len(s) > 0 /\ s[1] = "0" THEN StripLeadingZeros(Tail(s)) ELSE s

RECURSIVE StripTrailingZeros(_)
StripTrailingZeros(s) ==
    IF Len(s) > 0 /\ s[Len(s)] = "0"
    THEN StripTrailingZeros(SubSeq(s, 1, Len(s) - 1)) ELSE s

\* s <= t in the lexicographic order, for digit strings of equal length
RECURSIVE DigitsLeq(_, _)
DigitsLeq(s, t) ==
    IF Len(s) = 0 THEN TRUE
    ELSE IF DigitVal(s[1]) < DigitVal(t[1]) THEN TRUE
    ELSE IF DigitVal(s[1]) > DigitVal(t[1]) THEN FALSE
    ELSE DigitsLeq(Tail(s), Tail(t))

RECURSIVE DigitsValue(_, _)
DigitsValue(s, acc) ==
    IF Len(s) = 0 THEN acc ELSE DigitsValue(Tail(s), acc * 10 + DigitVal(s[1]))

----------------------------------------------------------------------------
(* str::parse::<isize>() and str::parse::<f64>() *)

\* isize::MAX and the magnitude of isize::MIN on a 64-bit target, in decimal
IsizeMaxDigits ==
    <<"9","2","2","3","3","7","2","0","3","6","8","5","4","7","7","5","8","0","7">>
IsizeMinDigits ==
    <<"9","2","2","3","3","7","2","0","3","6","8","5","4","7","7","5","8","0","8">>

\* Whether the magnitude written by the digit string d fits below `limit`
FitsIn(d, limit) ==
    LET m == StripLeadingZeros(d)
    IN  \/ Len(m) < Len(limit)
        \/ Len(m) = Len(limit) /\ DigitsLeq(m, limit)

\* <isize as FromStr>::from_str: an optional '+' or '-', then one or more
\* decimal digits, accumulated with overflow checks.  Err on an empty string,
\* a lone sign, any other character, or a value outside isize.
parse_isize(s) ==
    IF Len(s) = 0 THEN Err
    ELSE LET neg == s[1] = "-"
             d == IF s[1] \in {"+", "-"} THEN Tail(s) ELSE s
         IN  IF Len(d) = 0 \/ ~AllDigits(d) THEN Err
             ELSE IF ~FitsIn(d, IF neg THEN IsizeMinDigits ELSE IsizeMaxDigits)
             THEN Err
             ELSE Ok(IF neg THEN 0 - DigitsValue(d, 0) ELSE DigitsValue(d, 0))

\* The first index of s holding a character of cs, or 0
RECURSIVE FindChar(_, _, _)
FindChar(s, cs, i) ==
    IF i > Len(s) THEN 0
    ELSE IF s[i] \in cs THEN i
    ELSE FindChar(s, cs, i + 1)

AsciiLower(c) ==
    CASE c = "I" -> "i" [] c = "N" -> "n" [] c = "F" -> "f" [] c = "T" -> "t"
      [] c = "Y" -> "y" [] c = "A" -> "a" [] OTHER -> c

\* <f64 as FromStr>::from_str: an optional sign, then "inf", "infinity" or
\* "nan" in any case, or a decimal number: digits with an optional '.', at
\* least one digit in all, and an optional exponent ('e' or 'E', an optional
\* sign, one or more digits).  The value of a number is kept as the decimal
\* it denotes, neg * digits * 10^scale with digits stripped of zeros at both
\* ends; the rounding to binary64 is not modelled.
parse_f64(s) ==
    IF Len(s) = 0 THEN Err
    ELSE
    LET signed == s[1] \in {"+", "-"}
        neg == s[1] = "-"
        body == IF signed THEN Tail(s) ELSE s
        low == [i \in 1..Len(body) |-> AsciiLower(body[i])]
        ePos == FindChar(body, {"e", "E"}, 1)
        num == IF ePos = 0 THEN body ELSE SubSeq(body, 1, ePos - 1)
        ex == IF ePos = 0 THEN <<>> ELSE SubSeq(body, ePos + 1, Len(body))
        exSigned == Len(ex) > 0 /\ ex[1] \in {"+", "-"}
        exNeg == Len(ex) > 0 /\ ex[1] = "-"
        exDigits == IF exSigned THEN Tail(ex) ELSE ex
        dot == FindChar(num, {"."}, 1)
        int == IF dot = 0 THEN num ELSE SubSeq(num, 1, dot - 1)
        frac == IF dot = 0 THEN <<>> ELSE SubSeq(num, dot + 1, Len(num))
        e == IF ePos = 0 THEN 0
             ELSE IF exNeg THEN 0 - DigitsValue(exDigits, 0)
             ELSE DigitsValue(exDigits, 0)
        lead == StripLeadingZeros(int \o frac)
        mant == StripTrailingZeros(lead)
    IN  IF low \in {<<"i","n","f">>, <<"i","n","f","i","n","i","t","y">>}
        THEN Ok([kind |-> "inf", neg |-> neg])
        ELSE IF low = <<"n","a","n">> THEN Ok([kind |-> "nan"])
        ELSE IF /\ AllDigits(int) /\ AllDigits(frac)
                /\ Len(int) + Len(frac) >= 1
                /\ (ePos # 0 => Len(exDigits) >= 1 /\ AllDigits(exDigits))
        THEN Ok([kind |-> "num", neg |-> neg, digits |-> mant,
                 scale |-> IF Len(mant) = 0 THEN 0
                           ELSE e - Len(frac) + (Len(lead) - Len(mant))])
        ELSE Err

----------------------------------------------------------------------------
(* flag.rs *)

FlagTypes == {"Bool", "String", "Int", "Float"}

FlagValue_Bool(b) == [tag |-> "Bool", val |-> b]
FlagValue_String(s) == [tag |-> "String", val |-> s]
FlagValue_Int(n) == [tag |-> "Int", val |-> n]
FlagValue_Float(x) == [tag |-> "Float", val |-> x]

\* Flag::new rejecting a '-' anywhere in the name, not only at its start
new_any_dash(name, usage, flag_type) ==
    IF contains(name, "-")
    THEN Panic("new", "Flag name cannnot start with -")
    ELSE IF contains(name, "=")
    THEN Panic("new", "Flag name cannnot contain =")
    ELSE IF contains(name, " ")
    THEN Panic("new", "Flag name cannnot contain whitespaces")
    ELSE [tag |-> "Flag", name |-> name, usage |-> usage,
          flag_type |-> flag_type, alias |-> None]

\* Flag::new: the returned Flag, or the panic raised
new(name, usage, flag_type) ==
    IF starts_with(name, "-")
    THEN Panic("new", "Flag name cannnot start with -")
    ELSE IF contains(name, "=")
    THEN Panic("new", "Flag name cannnot contain =")
    ELSE IF contains(name, " ")
    THEN Panic("new", "Flag name cannnot contain whitespaces")
    ELSE [tag |-> "Flag", name |-> name, usage |-> usage,
          flag_type |-> flag_type, alias |-> None]

\* Flag::alias skipping an alias that is already registered
alias_dedup(self, name) ==
    IF self.alias.tag = "Some"
    THEN IF \E i \in 1..Len(self.alias.val) : self.alias.val[i] = name
         THEN self
         ELSE [self EXCEPT !.alias = Some(Append(self.alias.val, name))]
    ELSE [self EXCEPT !.alias = Some(<<name>>)]

\* Flag::alias: self with the name pushed on its alias vector
alias(self, name) ==
    IF self.alias.tag = "Some"
    THEN [self EXCEPT !.alias = Some(Append(self.alias.val, name))]
    ELSE [self EXCEPT !.alias = Some(<<name>>)]

\* Flag::option_index looking for the long form in the whole list first and
\* for the alias short forms only when the long form is absent
option_index_long_first(self, s) ==
    LET long == position([k \in 1..Len(s) |-> s[k] = format_long(self.name)])
    IN  IF long.tag = "Some" \/ self.alias.tag = "None" THEN long
        ELSE LET as == self.alias.val
             IN  position([k \in 1..Len(s) |->
                              \E i \in 1..Len(as) : s[k] = format_short(as[i])])

\* Flag::option_index
option_index(self, s) ==
    IF self.alias.tag = "Some"
    THEN LET as == self.alias.val
         IN  position([k \in 1..Len(s) |->
                          \/ s[k] = format_long(self.name)
                          \/ \E i \in 1..Len(as) : s[k] = format_short(as[i])])
    ELSE position([k \in 1..Len(s) |-> s[k] = format_long(self.name)])

\* The slice index v[i] (i 0-based): the element, or the out-of-bounds panic
index(s, i) ==
    IF i + 1 <= Len(s) THEN Ok(s[i + 1]) ELSE Panic("value", "index out of bounds")

\* Flag::value of a Bool flag testing the long form only
value_bool_long_only(self, s) ==
    Some(FlagValue_Bool(slice_contains(s, format_long(self.name))))

\* Flag::value, FlagType::Bool
value_bool(self, s) ==
    IF self.alias.tag = "Some"
    THEN LET as == self.alias.val
         IN  Some(FlagValue_Bool(\/ slice_contains(s, format_long(self.name))
                                 \/ \E i \in 1..Len(as) :
                                       slice_contains(s, format_short(as[i]))))
    ELSE Some(FlagValue_Bool(slice_contains(s, format_long(self.name))))

\* Flag::value of a String flag returning v[index], the flag token itself
value_string_at_index(self, s) ==
    LET at == option_index(self, s)
    IN  IF at.tag = "Some"
        THEN LET tok == index(s, at.val)
             IN  IF tok.tag = "Panic" THEN tok
                 ELSE Some(FlagValue_String(tok.val))
        ELSE None

\* Flag::value, FlagType::String
value_string(self, s) ==
    LET at == option_index(self, s)
    IN  IF at.tag = "Some"
        THEN LET tok == index(s, at.val + 1)
             IN  IF tok.tag = "Panic" THEN tok
                 ELSE Some(FlagValue_String(tok.val))
        ELSE None

\* Flag::value of an Int flag with unwrap_or_default() in place of the panic
value_int_or_default(self, s) ==
    LET at == option_index(self, s)
    IN  IF at.tag = "Some"
        THEN LET tok == index(s, at.val + 1)
             IN  IF tok.tag = "Panic" THEN tok
                 ELSE LET n == parse_isize(tok.val)
                      IN  IF n.tag = "Ok" THEN Some(FlagValue_Int(n.val))
                          ELSE Some(FlagValue_Int(0))
        ELSE None

\* Flag::value, FlagType::Int
value_int(self, s) ==
    LET at == option_index(self, s)
    IN  IF at.tag = "Some"
        THEN LET tok == index(s, at.val + 1)
             IN  IF tok.tag = "Panic" THEN tok
                 ELSE LET n == parse_isize(tok.val)
                      IN  IF n.tag = "Ok" THEN Some(FlagValue_Int(n.val))
                          ELSE Panic("value", "The value of flag should be int")
        ELSE None

\* Flag::value of a Float flag reading the next token with v.get(index + 1)
\* and returning none when there is no such token
value_float_get(self, s) ==
    LET at == option_index(self, s)
    IN  IF at.tag = "Some"
        THEN IF at.val + 2 > Len(s) THEN None
             ELSE LET x == parse_f64(s[at.val + 2])
                  IN  IF x.tag = "Ok" THEN Some(FlagValue_Float(x.val))
                      ELSE Panic("value", "The value of flag should be float")
        ELSE None

\* Flag::value, FlagType::Float
value_float(self, s) ==
    LET at == option_index(self, s)
    IN  IF at.tag = "Some"
        THEN LET tok == index(s, at.val + 1)
             IN  IF tok.tag = "Panic" THEN tok
                 ELSE LET x == parse_f64(tok.val)
                      IN  IF x.tag = "Ok" THEN Some(FlagValue_Float(x.val))
                          ELSE Panic("value", "The value of flag should be float")
        ELSE None

\* Flag::value: the returned Option<FlagValue>, or the panic raised
value(self, s) ==
    CASE self.flag_type = "Bool" -> value_bool(self, s)
      [] self.flag_type = "String" -> value_string(self, s)
      [] self.flag_type = "Int" -> value_int(self, s)
      [] self.flag_type = "Float" -> value_float(self, s)

\* The state a caller of Flag::new is left with: the Flag, or the panic
New(names, usages) ==
    /\ panic.tag = "NoPanic"
    /\ \E name \in names, usage \in usages, flag_type \in FlagTypes :
         LET r == new(name, usage, flag_type)
         IN  /\ newArgs' = [tag |-> "Args", name |-> name, usage |-> usage, flag_type |-> flag_type]
             /\ flag' = IF r.tag = "Panic" THEN NoFlag ELSE r
             /\ panic' = IF r.tag = "Panic" THEN r ELSE panic
    /\ aliasArgs' = <<>>
    /\ idx' = Unset
    /\ val' = Unset
    /\ UNCHANGED <<v, acts, invocations, runArgs>>

\* flag = flag.alias(a)
Alias ==
    /\ panic.tag = "NoPanic"
    /\ flag.tag = "Flag"
    /\ Len(aliasArgs) < MaxAliases
    /\ \E a \in AliasNames :
         /\ flag' = alias(flag, a)
         /\ aliasArgs' = Append(aliasArgs, a)
    /\ idx' = Unset
    /\ val' = Unset
    /\ UNCHANGED <<v, panic, newArgs, acts, invocations, runArgs>>

\* flag.option_index(&v)
OptionIndex ==
    /\ panic.tag = "NoPanic"
    /\ flag.tag = "Flag"
    /\ idx' = option_index(flag, v)
    /\ UNCHANGED <<flag, v, val, panic, newArgs, aliasArgs, acts, invocations, runArgs>>

\* flag.value applied to a list it drains: the matched flag token is removed
Value_draining ==
    /\ panic.tag = "NoPanic"
    /\ flag.tag = "Flag"
    /\ LET r == value(flag, v)
           at == option_index(flag, v)
       IN  /\ val' = IF r.tag = "Panic" THEN val ELSE r
           /\ panic' = IF r.tag = "Panic" THEN r ELSE panic
           /\ v' = IF at.tag = "Some"
                   THEN SubSeq(v, 1, at.val) \o SubSeq(v, at.val + 2, Len(v))
                   ELSE v
    /\ UNCHANGED <<flag, idx, newArgs, aliasArgs, acts, invocations, runArgs>>

\* flag.value(&v)
Value ==
    /\ panic.tag = "NoPanic"
    /\ flag.tag = "Flag"
    /\ LET r == value(flag, v)
       IN  /\ val' = IF r.tag = "Panic" THEN val ELSE r
           /\ panic' = IF r.tag = "Panic" THEN r ELSE panic
    /\ UNCHANGED <<flag, v, idx, newArgs, aliasArgs, acts, invocations, runArgs>>

----------------------------------------------------------------------------
(* action.rs *)

\* The callables wrapped (each an Arc allocation, named by its identity) and
\* the contexts handed to run
Callables == {"f", "g"}
Contexts == {"c1", "c2"}

\* <Action as From<F>>::from
from(callable) == [inner |-> callable]

\* <Action as Clone>::clone (derived): the Arc is cloned, the callable shared
clone(self) == [inner |-> self.inner]

\* Action::run calling the wrapped callable twice
run_twice(self, context) ==
    <<[callable |-> self.inner, context |-> context],
      [callable |-> self.inner, context |-> context]>>

\* Action::run: the calls made to wrapped callables, in order
run(self, context) == <<[callable |-> self.inner, context |-> context]>>

From ==
    /\ Len(acts) < MaxActions
    /\ \E callable \in Callables : acts' = Append(acts, from(callable))
    /\ UNCHANGED <<flag, v, idx, val, panic, newArgs, aliasArgs, invocations, runArgs>>

Clone ==
    /\ Len(acts) < MaxActions
    /\ \E i \in 1..Len(acts) : acts' = Append(acts, clone(acts[i]))
    /\ UNCHANGED <<flag, v, idx, val, panic, newArgs, aliasArgs, invocations, runArgs>>

Run ==
    /\ Len(runArgs) < MaxRuns
    /\ \E i \in 1..Len(acts), context \in Contexts :
         /\ invocations' = invocations \o run(acts[i], context)
         /\ runArgs' = Append(runArgs, [handle |-> i, context |-> context])
    /\ UNCHANGED <<flag, v, idx, val, panic, newArgs, aliasArgs, acts>>

----------------------------------------------------------------------------
(* Specifications *)

Init ==
    /\ flag = NoFlag
    /\ v \in TokenLists
    /\ idx = Unset
    /\ val = Unset
    /\ panic = NoPanic
    /\ newArgs = Unset
    /\ aliasArgs = <<>>
    /\ acts = <<>>
    /\ invocations = <<>>
    /\ runArgs = <<>>

\* Declaring flags: every name up to MaxNameLen, no token list involved
InitFlag == Init /\ v = <<>>
NextFlag == New(Names, Usages) \/ Alias
SpecFlag == InitFlag /\ [][NextFlag]_vars

\* Resolving declared flags against every token list up to MaxTokens
NextResolve == New(ResolveNames, {<<>>}) \/ Alias \/ OptionIndex \/ Value
SpecResolve == Init /\ [][NextResolve]_vars

\* Wrapping, cloning and running actions
InitAction == Init /\ v = <<>> /\ acts = <<>>
NextAction == From \/ Clone \/ Run
SpecAction == InitAction /\ [][NextAction]_vars

----------------------------------------------------------------------------
(* Properties of Flag::option_index and Flag::value *)

AliasSet(f) ==
    IF f.alias.tag = "Some" THEN {f.alias.val[i] : i \in 1..Len(f.alias.val)} ELSE {}

\* The token t is the long form of f or the short form of one of its aliases
Matches(f, t) ==
    \/ t = <<"-", "-">> \o f.name
    \/ \E a \in AliasSet(f) : t = <<"-">> \o a

\* The 0-based positions of s whose token matches f
MatchPositions(f, s) == {i \in 0..(Len(s) - 1) : Matches(f, s[i + 1])}

Min(S) == CHOOSE x \in S : \A y \in S : x <= y

\* value has returned or panicked for the current flag and token list
ValueActed ==
    \/ val.tag # "Unset"
    \/ panic.tag = "Panic" /\ panic.in = "value"

\* C1: option_index returns the smallest index whose token equals the long
\* form or the short form of any registered alias, and none exactly when no
\* token does; only the set of aliases matters, not their order.
C1_OptionIndexFirstMatch ==
    idx.tag # "Unset" =>
        LET P == MatchPositions(flag, v)
        IN  IF P = {} THEN idx.tag = "None"
            ELSE idx.tag = "Some" /\ idx.val = Min(P)

\* C1: option_index returned the position of the alias registered second,
\* although a token of the alias registered first follows later in the list
C1_Witness ==
    /\ idx.tag = "Some"
    /\ Len(aliasArgs) = 2
    /\ aliasArgs[1] # aliasArgs[2]
    /\ v[idx.val + 1] = <<"-">> \o aliasArgs[2]
    /\ \E j \in (idx.val + 2)..Len(v) : v[j] = <<"-">> \o aliasArgs[1]

\* C2: value of a Bool flag never panics and always returns Some(Bool(b)),
\* with b true iff some token of the list is the long form or an alias short
\* form.
C2_BoolPresence ==
    (flag.tag = "Flag" /\ flag.flag_type = "Bool") =>
        /\ panic.tag = "NoPanic"
        /\ val.tag # "Unset" =>
             /\ val.tag = "Some"
             /\ val.val.tag = "Bool"
             /\ val.val.val = (MatchPositions(flag, v) # {})

\* C2: a Bool flag resolved to true by an alias token at the end of a list
\* that does not hold the long form
C2_Witness ==
    /\ flag.tag = "Flag" /\ flag.flag_type = "Bool"
    /\ val.tag = "Some" /\ val.val.val = TRUE
    /\ Len(v) = MaxTokens
    /\ MatchPositions(flag, v) = {Len(v) - 1}
    /\ v[Len(v)] # <<"-", "-">> \o flag.name

\* C3: value of a String flag returns the token after the position
\* option_index returns, unchanged, when there is one, and none without
\* failing when option_index returns none.
C3_StringVerbatim ==
    (flag.tag = "Flag" /\ flag.flag_type = "String") =>
        LET at == option_index(flag, v)
        IN  /\ at.tag = "None" =>
                 /\ panic.tag = "NoPanic"
                 /\ val.tag # "Unset" => val.tag = "None"
            /\ (at.tag = "Some" /\ at.val + 2 <= Len(v)) =>
                 /\ panic.tag = "NoPanic"
                 /\ val.tag # "Unset" =>
                      /\ val.tag = "Some"
                      /\ val.val.tag = "String"
                      /\ val.val.val = v[at.val + 2]

\* C3: a String flag whose value is a token that itself looks like a flag
C3_Witness ==
    /\ flag.tag = "Flag" /\ flag.flag_type = "String"
    /\ val.tag = "Some"
    /\ val.val.val = <<"-", "-", "a", "b">>
    /\ Matches(flag, val.val.val)

\* An optional sign followed by one or more decimal digits
ValidInt(t) ==
    LET d == IF Len(t) > 0 /\ t[1] \in {"+", "-"} THEN Tail(t) ELSE t
    IN  Len(d) >= 1 /\ \A i \in 1..Len(d) : d[i] \in Digits

\* The integer a valid token denotes
RECURSIVE DecValue(_)
DecValue(d) ==
    IF Len(d) = 0 THEN 0
    ELSE 10 * DecValue(SubSeq(d, 1, Len(d) - 1)) + DigitVal(d[Len(d)])

Denotes(t) ==
    IF t[1] = "-" THEN 0 - DecValue(Tail(t))
    ELSE IF t[1] = "+" THEN DecValue(Tail(t))
    ELSE DecValue(t)

\* The integer a valid token denotes lies in isize::MIN..isize::MAX
InIsize(t) ==
    LET d == StripLeadingZeros(IF t[1] \in {"+", "-"} THEN Tail(t) ELSE t)
        limit == IF t[1] = "-" THEN IsizeMinDigits ELSE IsizeMaxDigits
    IN  Len(d) < 19 \/ (Len(d) = 19 /\ DigitsLeq(d, limit))

IntPanic == Panic("value", "The value of flag should be int")

\* C4 as stated: an Int flag found at i with a token at i+1 yields Int(n)
\* whenever that token is a valid base-10 signed integer, panics when it is
\* not, and yields none when option_index returns none.
C4_IntAnyValidInteger ==
    (flag.tag = "Flag" /\ flag.flag_type = "Int" /\ ValueActed) =>
        LET at == option_index(flag, v)
        IN  /\ at.tag = "None" => val.tag = "None"
            /\ (at.tag = "Some" /\ at.val + 2 <= Len(v)) =>
                 IF ValidInt(v[at.val + 2])
                 THEN /\ val.tag = "Some"
                      /\ val.val.tag = "Int"
                      /\ val.val.val = Denotes(v[at.val + 2])
                 ELSE val.tag = "Unset" /\ panic = IntPanic

\* C4, amended: Int(n) is returned when the token is a valid base-10 signed
\* integer that fits isize; value panics when the token is not a valid
\* integer or is out of the range of isize; none when option_index returns
\* none.
C4_IntInRange ==
    (flag.tag = "Flag" /\ flag.flag_type = "Int" /\ ValueActed) =>
        LET at == option_index(flag, v)
        IN  /\ at.tag = "None" => val.tag = "None"
            /\ (at.tag = "Some" /\ at.val + 2 <= Len(v)) =>
                 IF ValidInt(v[at.val + 2]) /\ InIsize(v[at.val + 2])
                 THEN /\ val.tag = "Some"
                      /\ val.val.tag = "Int"
                      /\ val.val.val = Denotes(v[at.val + 2])
                 ELSE val.tag = "Unset" /\ panic = IntPanic

\* C4: an Int flag resolved to a negative integer
C4_Witness ==
    /\ flag.tag = "Flag" /\ flag.flag_type = "Int"
    /\ val.tag = "Some" /\ val.val.tag = "Int"
    /\ val.val.val = 0 - 5

\* C5: when the first matching token of a String, Int or Float flag is the
\* last token of the list, value returns nothing and fails with the index
\* out of range.
C5_MissingValuePanics ==
    ( /\ flag.tag = "Flag" /\ flag.flag_type \in {"String", "Int", "Float"}
      /\ MatchPositions(flag, v) # {}
      /\ Min(MatchPositions(flag, v)) = Len(v) - 1 ) =>
        /\ val.tag = "Unset"
        /\ ValueActed => panic = Panic("value", "index out of bounds")

\* C5: value has panicked on a list of a single token, the flag itself
C5_Witness ==
    /\ flag.tag = "Flag" /\ flag.flag_type \in {"String", "Int", "Float"}
    /\ Len(v) = 1
    /\ Matches(flag, v[1])
    /\ panic = Panic("value", "index out of bounds")

----------------------------------------------------------------------------
(* Properties of Flag::new and Flag::alias *)

\* The whitespace characters among NameChars (char::is_whitespace)
Whitespace == {" ", "\t"}

InvalidName(name) ==
    \/ Len(name) > 0 /\ name[1] = "-"
    \/ \E i \in 1..Len(name) : name[i] = "="
    \/ \E i \in 1..Len(name) : name[i] \in Whitespace

\* C6: Flag::new called with a name that starts with '-', contains '=' or
\* contains a whitespace character panics and produces no Flag.
C6_InvalidNameRejected ==
    (newArgs.tag = "Args" /\ InvalidName(newArgs.name)) =>
        /\ flag.tag = "NoFlag"
        /\ panic.tag = "Panic" /\ panic.in = "new"

\* C7: Flag::new called with a name that does not start with '-' and holds
\* no '=' and no whitespace returns a Flag holding exactly the name, usage
\* and type passed, with no alias collection.
C7_ValidNameConstructs ==
    (newArgs.tag = "Args" /\ ~InvalidName(newArgs.name)) =>
        /\ panic.tag = "NoPanic"
        /\ flag.tag = "Flag"
        /\ flag.name = newArgs.name
        /\ flag.usage = newArgs.usage
        /\ flag.flag_type = newArgs.flag_type
        /\ aliasArgs = <<>> => flag.alias.tag = "None"

\* C7: a Flag just constructed from a name with an interior '-' and a
\* non-empty usage
C7_Witness ==
    /\ flag.tag = "Flag"
    /\ aliasArgs = <<>>
    /\ newArgs.name = <<"a", "-">>
    /\ flag.name = <<"a", "-">>
    /\ flag.usage = <<"u">>

\* C8: after alias calls a1..an on a constructed Flag its alias collection
\* is exactly <<a1, ..., an>> (absent before the first call, duplicates
\* kept), and name, usage and type are those of construction.
C8_AliasAppends ==
    flag.tag = "Flag" =>
        /\ flag.name = newArgs.name
        /\ flag.usage = newArgs.usage
        /\ flag.flag_type = newArgs.flag_type
        /\ IF aliasArgs = <<>> THEN flag.alias.tag = "None"
           ELSE flag.alias.tag = "Some" /\ flag.alias.val = aliasArgs

\* C8: a Flag on which the same alias was registered twice
C8_Witness ==
    /\ flag.tag = "Flag"
    /\ Len(aliasArgs) = 2
    /\ aliasArgs[1] = aliasArgs[2]
    /\ flag.alias.tag = "Some"
    /\ Len(flag.alias.val) = 2

----------------------------------------------------------------------------
(* Statelessness of resolution *)

----------------------------------------------------------------------------
(* Properties of Action::run *)

\* C10: the k-th run call made the k-th invocation, and no other: of the
\* callable the handle wraps, with the context passed; the handles are not
\* changed by it.
C10_RunInvokesOnce ==
    /\ Len(invocations) = Len(runArgs)
    /\ \A k \in 1..Len(runArgs) :
         /\ runArgs[k].handle \in 1..Len(acts)
         /\ k <= Len(invocations) =>
              /\ invocations[k].callable = acts[runArgs[k].handle].inner
              /\ invocations[k].context = runArgs[k].context

\* C10: one Action run twice with different contexts, then its clone run
C10_Witness ==
    /\ Len(runArgs) = 3
    /\ Len(invocations) = 3
    /\ runArgs[1].handle = runArgs[2].handle
    /\ runArgs[1].context # runArgs[2].context
    /\ runArgs[3].handle # runArgs[1].handle
    /\ acts[runArgs[3].handle] = acts[runArgs[1].handle]
    /\ invocations[1].context # invocations[2].context

====
